---- MODULE Spec2Model ----
(***************************************************************************)
(* Model of the Tock thread-mode executor (embassy-executor/src/arch/      *)
(* tock.rs) and of the dynamic-tick-rate Duration (embassy-time/src/       *)
(* duration_dynamic.rs, with gcd / gcd_1k / gcd_1m / gcd_1g of lib.rs).    *)
(*                                                                         *)
(* and of the entry-point macro (embassy-executor-macros/src/macros/       *)
(* main.rs).  The specifications that share the module:                    *)
(*   Spec      the executor under Tock's delivery model: __pender is       *)
(*             called from init, from inside inner.poll(), or from an      *)
(*             upcall the kernel runs inside a yield;                      *)
(*   SpecAsync the same executor with __pender also callable at any        *)
(*             instant from another context;                               *)
(*   SpecLive  Spec with the fairness of the executor's own steps;         *)
(*   SpecTime  the Duration functions applied to inputs drawn in Init;     *)
(*   SpecMacro the macro's run() applied to an item, an attribute and an   *)
(*             arch drawn in Init.                                         *)
(***************************************************************************)
EXTENDS Integers, Sequences, FiniteSets, TLC

VARIABLES
    \* ---- executor (tock.rs) ----
    pc,            \* where Executor::run is
    SIGNAL_WORK,   \* static SIGNAL_WORK: AtomicBool
    in_poll,       \* number of inner.poll() calls in flight
    init_calls,    \* how many times the init closure has been called
    polls,         \* inner.poll() calls started so far (saturates at MaxPolls)
    armed,         \* operations started whose completion the kernel has not seen yet
    pending,       \* upcalls the kernel has queued for this process
    unserved,      \* __pender was called since the last inner.poll() started
    delivered,     \* the yield inside which the kernel last ran an upcall
    \* ---- Duration (duration_dynamic.rs) ----
    frequency,     \* embassy_time_driver::frequency(), fixed for the process
    overflow_checks, \* build profile: TRUE = overflow panics, FALSE = it wraps
    x,             \* first input (a unit count or a tick count)
    y,             \* second input (a tick count or a u32 scalar)
    op,            \* the function that was applied, "none" before
    out,           \* its result
    \* ---- #[embassy_executor::main] (macros/main.rs) ----
    item,          \* the annotated item as syn parses it
    attr,          \* the attribute's arguments as written
    arch,          \* the Arch the macro is expanded for
    mpc,           \* where run() is
    errors,        \* let mut errors: the compile errors recorded so far
    args,          \* let args: Args
    entry,         \* let entry
    executor,      \* let executor
    libtock_macros, \* let mut libtock_macros
    main_body,     \* let mut main_body
    result         \* what run() returns

exec_vars == <<pc, SIGNAL_WORK, in_poll, init_calls, polls, armed, pending, unserved,
               delivered>>
time_vars == <<frequency, overflow_checks, x, y, op, out>>
macro_vars == <<item, attr, arch, mpc, errors, args, entry, executor,
                libtock_macros, main_body, result>>
vars == <<pc, SIGNAL_WORK, in_poll, init_calls, polls, armed, pending, unserved,
          delivered,
          frequency, overflow_checks, x, y, op, out,
          item, attr, arch, mpc, errors, args, entry, executor,
          libtock_macros, main_body, result>>

(***************************************************************************)
(* Bounds of the model.                                                    *)
(***************************************************************************)
\* polls is counted up to here and then stays
MaxPolls == 3
\* operations in flight plus upcalls queued, at most
MaxEvents == 2

Min(a, b) == IF a < b THEN a ELSE b

(***************************************************************************)
(* The executor: embassy-executor/src/arch/tock.rs                         *)
(***************************************************************************)
PcValues == {"start", "loop", "idle", "wait", "work", "poll", "nowait"}

\* a __pender that polls the executor itself instead of leaving it to run()
pender_polls ==
    /\ SIGNAL_WORK' = TRUE
    /\ unserved' = TRUE
    /\ in_poll' = in_poll + 1

\* fn __pender(_context): SIGNAL_WORK.store(true, SeqCst), nothing else
pender ==
    /\ SIGNAL_WORK' = TRUE
    /\ unserved' = TRUE
    /\ in_poll' = in_poll

\* a piece of code that may call a waker (and so __pender) or not
maybe_pender ==
    \/ pender
    \/ UNCHANGED <<SIGNAL_WORK, unserved, in_poll>>

\* run() that enters the loop without calling init
RunInit_skipped ==
    /\ pc = "start"
    /\ pc' = "loop"
    /\ UNCHANGED <<SIGNAL_WORK, unserved, in_poll, init_calls, polls, armed, pending>>
    /\ UNCHANGED delivered
    /\ UNCHANGED <<time_vars, macro_vars>>

\* init(self.inner.spawner()): the closure runs once; each task it spawns is
\* enqueued on this executor, which calls __pender
RunInit ==
    /\ pc = "start"
    /\ init_calls' = init_calls + 1
    /\ maybe_pender
    /\ pc' = "loop"
    /\ UNCHANGED <<polls, armed, pending>>
    /\ UNCHANGED delivered
    /\ UNCHANGED <<time_vars, macro_vars>>

\* a swap whose test lost its `!`: blocks when there is work, polls when not
Swap_inverted ==
    /\ pc = "loop"
    /\ pc' = IF SIGNAL_WORK THEN "idle" ELSE "work"
    /\ SIGNAL_WORK' = FALSE
    /\ UNCHANGED <<in_poll, init_calls, polls, armed, pending, unserved>>
    /\ UNCHANGED delivered
    /\ UNCHANGED <<time_vars, macro_vars>>

\* if !SIGNAL_WORK.swap(false, SeqCst): one atomic read-and-clear
Swap ==
    /\ pc = "loop"
    /\ pc' = IF SIGNAL_WORK THEN "work" ELSE "idle"
    /\ SIGNAL_WORK' = FALSE
    /\ UNCHANGED <<in_poll, init_calls, polls, armed, pending, unserved>>
    /\ UNCHANGED delivered
    /\ UNCHANGED <<time_vars, macro_vars>>

\* S::yield_wait() is called: the process blocks in the kernel
YieldWaitCall ==
    /\ pc = "idle"
    /\ pc' = "wait"
    /\ UNCHANGED <<SIGNAL_WORK, in_poll, init_calls, polls, armed, pending, unserved>>
    /\ UNCHANGED delivered
    /\ UNCHANGED <<time_vars, macro_vars>>

\* the kernel runs one queued upcall inside yield_wait, which then returns;
\* the upcall's handler may wake a task
YieldWaitUpcall ==
    /\ pc = "wait"
    /\ pending > 0
    /\ pending' = pending - 1
    /\ delivered' = "wait"
    /\ maybe_pender
    /\ pc' = "loop"
    /\ UNCHANGED <<init_calls, polls, armed>>
    /\ UNCHANGED <<time_vars, macro_vars>>

\* unsafe { self.inner.poll() } is entered
PollEnter ==
    /\ pc = "work"
    /\ pc' = "poll"
    /\ in_poll' = in_poll + 1
    /\ polls' = Min(polls + 1, MaxPolls)
    /\ unserved' = FALSE
    /\ UNCHANGED <<SIGNAL_WORK, init_calls, armed, pending>>
    /\ UNCHANGED delivered
    /\ UNCHANGED <<time_vars, macro_vars>>

\* a task polled by inner.poll() wakes itself or another task
PollWake ==
    /\ pc = "poll"
    /\ pender
    /\ UNCHANGED <<pc, init_calls, polls, armed, pending>>
    /\ UNCHANGED delivered
    /\ UNCHANGED <<time_vars, macro_vars>>

\* a task polled by inner.poll() starts an operation (a timer, a console
\* write) whose completion the kernel reports by an upcall
PollSubscribe ==
    /\ pc = "poll"
    /\ armed + pending < MaxEvents
    /\ armed' = armed + 1
    /\ UNCHANGED <<pc, SIGNAL_WORK, in_poll, init_calls, polls, pending, unserved>>
    /\ UNCHANGED delivered
    /\ UNCHANGED <<time_vars, macro_vars>>

\* a loop that clears the flag after the poll instead of before it
PollReturn_clears ==
    /\ pc = "poll"
    /\ pc' = "nowait"
    /\ in_poll' = in_poll - 1
    /\ SIGNAL_WORK' = FALSE
    /\ UNCHANGED <<init_calls, polls, armed, pending, unserved>>
    /\ UNCHANGED delivered
    /\ UNCHANGED <<time_vars, macro_vars>>

\* inner.poll() returns
PollReturn ==
    /\ pc = "poll"
    /\ pc' = "nowait"
    /\ in_poll' = in_poll - 1
    /\ UNCHANGED <<SIGNAL_WORK, init_calls, polls, armed, pending, unserved>>
    /\ UNCHANGED delivered
    /\ UNCHANGED <<time_vars, macro_vars>>

\* a loop that goes back to the swap without yielding
YieldNoWait_skipped ==
    /\ pc = "nowait"
    /\ pc' = "loop"
    /\ UNCHANGED <<SIGNAL_WORK, in_poll, init_calls, polls, armed, pending, unserved>>
    /\ UNCHANGED delivered
    /\ UNCHANGED <<time_vars, macro_vars>>

\* S::yield_no_wait(): the kernel runs one queued upcall if there is one, and
\* the call returns either way; the loop starts over
YieldNoWait ==
    /\ pc = "nowait"
    /\ \/ /\ pending > 0
          /\ pending' = pending - 1
          /\ delivered' = "nowait"
          /\ maybe_pender
       \/ /\ pending = 0
          /\ UNCHANGED <<pending, delivered, SIGNAL_WORK, unserved, in_poll>>
    /\ pc' = "loop"
    /\ UNCHANGED <<init_calls, polls, armed>>
    /\ UNCHANGED <<time_vars, macro_vars>>

\* the hardware completes an operation: the kernel queues its upcall, which
\* is delivered only when the process yields
KernelEvent ==
    /\ armed > 0
    /\ armed' = armed - 1
    /\ pending' = pending + 1
    /\ UNCHANGED <<pc, SIGNAL_WORK, in_poll, init_calls, polls, unserved>>
    /\ UNCHANGED delivered
    /\ UNCHANGED <<time_vars, macro_vars>>

\* a waker is invoked from a context other than the executor's own code and
\* the upcalls of its yields, at any instant
AsyncPender ==
    /\ pender
    /\ UNCHANGED <<pc, init_calls, polls, armed, pending>>
    /\ UNCHANGED delivered
    /\ UNCHANGED <<time_vars, macro_vars>>

(***************************************************************************)
(* u64 arithmetic as the build compiles it.  MaxWord stands for u64::MAX:  *)
(* the word is scaled down so that every value fits the model checker's    *)
(* integers; 1_000_000_000 still fits the word.  An overflowing +, - or *  *)
(* panics when the build has overflow checks and wraps otherwise.          *)
(***************************************************************************)
MaxWord == 1073741823

Val(n) == [k |-> "val", v |-> n]
Panic == [k |-> "panic", v |-> 0]
None == [k |-> "none", v |-> 0]
Some(n) == [k |-> "some", v |-> n]

\* (a + b) mod (MaxWord + 1), for a, b in 0..MaxWord
wrapping_add(a, b) ==
    IF a > MaxWord - b THEN a - ((MaxWord - b) + 1) ELSE a + b

\* (a - b) mod (MaxWord + 1), for a, b in 0..MaxWord
wrapping_sub(a, b) ==
    IF a < b THEN a + ((MaxWord - b) + 1) ELSE a - b

\* 2 * h + bit * a, wrapped
wrapping_mul_bit(h, a, bit) ==
    LET d == wrapping_add(h, h)
    IN  IF bit = 1 THEN wrapping_add(d, a) ELSE d

\* 32 * h + digit * a, wrapped, for a digit of five bits; h is evaluated first
wrapping_mul_digit(h, a, digit) ==
    IF h < 0 THEN 0
    ELSE LET h4 == wrapping_mul_bit(h, a, (digit \div 16) % 2)
             h3 == wrapping_mul_bit(h4, a, (digit \div 8) % 2)
             h2 == wrapping_mul_bit(h3, a, (digit \div 4) % 2)
             h1 == wrapping_mul_bit(h2, a, (digit \div 2) % 2)
         IN  wrapping_mul_bit(h1, a, digit % 2)

\* (a * b) mod (MaxWord + 1), by doubling, five bits of b at a time
RECURSIVE wrapping_mul(_, _)
wrapping_mul(a, b) ==
    IF b = 0 THEN 0
    ELSE wrapping_mul_digit(wrapping_mul(a, b \div 32), a, b % 32)

\* a + b on u64
u64_add(a, b) ==
    IF a > MaxWord - b
    THEN (IF overflow_checks THEN Panic ELSE Val(wrapping_add(a, b)))
    ELSE Val(a + b)

\* a - b on u64
u64_sub(a, b) ==
    IF a < b
    THEN (IF overflow_checks THEN Panic ELSE Val(wrapping_sub(a, b)))
    ELSE Val(a - b)

\* a * b on u64
u64_mul(a, b) ==
    IF b # 0 /\ a > MaxWord \div b
    THEN (IF overflow_checks THEN Panic ELSE Val(wrapping_mul(a, b)))
    ELSE Val(a * b)

\* u64::checked_add, checked_sub, checked_mul, checked_div
u64_checked_add(a, b) == IF a > MaxWord - b THEN None ELSE Some(a + b)
u64_checked_sub(a, b) == IF a < b THEN None ELSE Some(a - b)
u64_checked_mul(a, b) == IF b # 0 /\ a > MaxWord \div b THEN None ELSE Some(a * b)
u64_checked_div(a, b) == IF b = 0 THEN None ELSE Some(a \div b)

\* Option::expect: the value of Some, a panic on None
expect(o) == IF o.k = "some" THEN Val(o.v) ELSE Panic

\* Some(Duration { ticks }) around a computation that may have panicked
some_of(r) == IF r.k = "val" THEN Some(r.v) ELSE r

\* r / den for a result r of the steps before
div_by(r, den) == IF r.k = "val" THEN Val(r.v \div den) ELSE r

(***************************************************************************)
(* embassy-time/src/lib.rs                                                 *)
(***************************************************************************)
RECURSIVE gcd(_, _)
gcd(a, b) == IF b = 0 THEN a ELSE gcd(b, a % b)

gcd_1k == gcd(frequency, 1000)
gcd_1m == gcd(frequency, 1000000)
gcd_1g == gcd(frequency, 1000000000)

(***************************************************************************)
(* embassy-time/src/duration_dynamic.rs.  A Duration is its tick count.    *)
(***************************************************************************)
\* const fn div_ceil(num, den): (num + den - 1) / den
div_ceil(num, den) ==
    LET s == u64_add(num, den)
    IN  IF s.k # "val" THEN s ELSE div_by(u64_sub(s.v, 1), den)

\* div_ceil applied to the result of the multiplication before it
div_ceil_of(r, den) == IF r.k = "val" THEN div_ceil(r.v, den) ELSE r

as_secs(ticks) == Val(ticks \div frequency)

as_millis(ticks) ==
    div_by(u64_mul(ticks, 1000 \div gcd_1k), frequency \div gcd_1k)

as_micros(ticks) ==
    div_by(u64_mul(ticks, 1000000 \div gcd_1m), frequency \div gcd_1m)

from_ticks(ticks) == Val(ticks)

from_secs(secs) == u64_mul(secs, frequency)

\* from_millis that rounds down
from_millis_rounds_down(millis) ==
    div_by(u64_mul(millis, frequency \div gcd_1k), 1000 \div gcd_1k)

from_millis(millis) ==
    div_ceil_of(u64_mul(millis, frequency \div gcd_1k), 1000 \div gcd_1k)

from_micros(micros) ==
    div_ceil_of(u64_mul(micros, frequency \div gcd_1m), 1000000 \div gcd_1m)

from_nanos(nanoseconds) ==
    div_ceil_of(u64_mul(nanoseconds, frequency \div gcd_1g), 1000000000 \div gcd_1g)

from_secs_floor(secs) == u64_mul(secs, frequency)

\* from_millis_floor that rounds up
from_millis_floor_rounds_up(millis) ==
    div_ceil_of(u64_mul(millis, frequency \div gcd_1k), 1000 \div gcd_1k)

from_millis_floor(millis) ==
    div_by(u64_mul(millis, frequency \div gcd_1k), 1000 \div gcd_1k)

from_micros_floor(micros) ==
    div_by(u64_mul(micros, frequency \div gcd_1m), 1000000 \div gcd_1m)

try_from_secs(secs) == u64_checked_mul(secs, frequency)

try_from_millis(millis) ==
    LET value == u64_checked_mul(millis, frequency \div gcd_1k)
    IN  IF value.k = "none" THEN None
        ELSE some_of(div_ceil(value.v, 1000 \div gcd_1k))

try_from_micros(micros) ==
    LET value == u64_checked_mul(micros, frequency \div gcd_1m)
    IN  IF value.k = "none" THEN None
        ELSE some_of(div_ceil(value.v, 1000000 \div gcd_1m))

try_from_nanos(nanoseconds) ==
    LET value == u64_checked_mul(nanoseconds, frequency \div gcd_1g)
    IN  IF value.k = "none" THEN None
        ELSE some_of(div_ceil(value.v, 1000000000 \div gcd_1g))

try_from_secs_floor(secs) == u64_checked_mul(secs, frequency)

try_from_millis_floor(millis) ==
    LET value == u64_checked_mul(millis, frequency \div gcd_1k)
    IN  IF value.k = "none" THEN None
        ELSE Some(value.v \div (1000 \div gcd_1k))

try_from_micros_floor(micros) ==
    LET value == u64_checked_mul(micros, frequency \div gcd_1m)
    IN  IF value.k = "none" THEN None
        ELSE Some(value.v \div (1000000 \div gcd_1m))

\* hz = 0 divides by zero
from_hz(hz) ==
    IF hz >= frequency THEN Val(1)
    ELSE IF hz = 0 THEN Panic
    ELSE div_by(u64_add(frequency, hz \div 2), hz)

\* checked_mul that multiplies without looking for the overflow
checked_mul_wrapping(ticks, rhs) == Some(wrapping_mul(ticks, rhs))

checked_add(ticks, rhs) == u64_checked_add(ticks, rhs)
checked_sub(ticks, rhs) == u64_checked_sub(ticks, rhs)
checked_mul(ticks, rhs) == u64_checked_mul(ticks, rhs)
checked_div(ticks, rhs) == u64_checked_div(ticks, rhs)

\* impl Add, Sub, Mul<u32>, Div<u32> for Duration
add(ticks, rhs) == expect(checked_add(ticks, rhs))

\* a subtraction with its operands the wrong way round
sub_reversed(ticks, rhs) == expect(checked_sub(rhs, ticks))

sub(ticks, rhs) == expect(checked_sub(ticks, rhs))
mul(ticks, rhs) == expect(checked_mul(ticks, rhs))
div(ticks, rhs) == expect(checked_div(ticks, rhs))

\* impl Mul<Duration> for u32: rhs * self
u32_mul(scalar, ticks) == mul(ticks, scalar)

\* impl AddAssign, SubAssign, MulAssign<u32>, DivAssign<u32>: *self = *self op rhs
add_assign(ticks, rhs) == add(ticks, rhs)
sub_assign(ticks, rhs) == sub(ticks, rhs)
mul_assign(ticks, rhs) == mul(ticks, rhs)
div_assign(ticks, rhs) == div(ticks, rhs)

(***************************************************************************)
(* The inputs the functions are applied to.                                *)
(***************************************************************************)
\* unit counts and tick counts 0..MaxSmall
MaxSmall == 4
\* the MaxEdge + 1 largest words
MaxEdge == 1
\* scalars (u32) and second operands 0..MaxScalar
MaxScalar == 3

\* tick frequencies: below 1000 Hz (1, coprime to 1000, dividing it), 1000 Hz,
\* above 1000 Hz and coprime to it, a 32768 Hz crystal, 1 MHz, 16 MHz, 1 GHz,
\* and the largest value frequency() -> u64 can return
Freqs == {1, 3, 10, 999, 1000, 1117, 32768, 1000000, 16000000, 1000000000,
          MaxWord}

\* the factors the functions multiply by at frequency f, and f itself
Factors(f) ==
    {f, 1000, f \div gcd(f, 1000), 1000 \div gcd(f, 1000),
     f \div gcd(f, 1000000), 1000000 \div gcd(f, 1000000),
     f \div gcd(f, 1000000000), 1000000000 \div gcd(f, 1000000000)}

\* small values, the largest words, and the values around which a product
\* with one of the factors stops fitting the word
Inputs(f) ==
    (0..MaxSmall) \cup {MaxWord - e : e \in 0..MaxEdge} \cup {125, 1000}
    \cup {MaxWord \div d + e : d \in Factors(f) \ {1}, e \in {0, 1}}
    \cup {(MaxWord - 999) \div f, (MaxWord - 1000) \div f}

Operands == (0..MaxScalar) \cup {MaxWord - 1}
Scalars == 0..MaxScalar

\* frequency() never changes after startup; the inputs are drawn here
TimeInit ==
    /\ frequency \in Freqs
    /\ overflow_checks \in BOOLEAN
    /\ x \in Inputs(frequency)
    /\ y \in Operands
    /\ op = "none"
    /\ out = None

\* function `name` is applied and returns r
Apply(name, r) ==
    /\ op = "none"
    /\ op' = name
    /\ out' = r
    /\ UNCHANGED <<frequency, overflow_checks, x, y>>
    /\ UNCHANGED <<exec_vars, macro_vars>>

AsSecs == Apply("as_secs", as_secs(x))
AsMillis == Apply("as_millis", as_millis(x))
AsMicros == Apply("as_micros", as_micros(x))
FromTicks == Apply("from_ticks", from_ticks(x))
FromSecs == Apply("from_secs", from_secs(x))
FromMillis == Apply("from_millis", from_millis(x))
FromMicros == Apply("from_micros", from_micros(x))
FromNanos == Apply("from_nanos", from_nanos(x))
FromSecsFloor == Apply("from_secs_floor", from_secs_floor(x))
FromMillisFloor == Apply("from_millis_floor", from_millis_floor(x))
FromMicrosFloor == Apply("from_micros_floor", from_micros_floor(x))
TryFromSecs == Apply("try_from_secs", try_from_secs(x))
TryFromMillis == Apply("try_from_millis", try_from_millis(x))
TryFromMicros == Apply("try_from_micros", try_from_micros(x))
TryFromNanos == Apply("try_from_nanos", try_from_nanos(x))
TryFromSecsFloor == Apply("try_from_secs_floor", try_from_secs_floor(x))
TryFromMillisFloor == Apply("try_from_millis_floor", try_from_millis_floor(x))
TryFromMicrosFloor == Apply("try_from_micros_floor", try_from_micros_floor(x))
FromHz == Apply("from_hz", from_hz(x))
CheckedAdd == Apply("checked_add", checked_add(x, y))
CheckedSub == Apply("checked_sub", checked_sub(x, y))
CheckedMul == y \in Scalars /\ Apply("checked_mul", checked_mul(x, y))
CheckedDiv == y \in Scalars /\ Apply("checked_div", checked_div(x, y))
Add == Apply("add", add(x, y))
Sub == Apply("sub", sub(x, y))
Mul == y \in Scalars /\ Apply("mul", mul(x, y))
Div == y \in Scalars /\ Apply("div", div(x, y))
U32Mul == y \in Scalars /\ Apply("u32_mul", u32_mul(y, x))
AddAssign == Apply("add_assign", add_assign(x, y))
SubAssign == Apply("sub_assign", sub_assign(x, y))
MulAssign == y \in Scalars /\ Apply("mul_assign", mul_assign(x, y))
DivAssign == y \in Scalars /\ Apply("div_assign", div_assign(x, y))

\* Duration::from_millis(x).as_millis()
FromMillisAsMillis ==
    LET d == from_millis(x)
    IN  Apply("from_millis.as_millis", IF d.k = "val" THEN as_millis(d.v) ELSE d)

\* Duration::from_millis_floor(x).as_millis()
FromMillisFloorAsMillis ==
    LET d == from_millis_floor(x)
    IN  Apply("from_millis_floor.as_millis", IF d.k = "val" THEN as_millis(d.v) ELSE d)

\* (a + b) - b for Durations a, b of x and y ticks
AddThenSub ==
    LET s == add(x, y)
    IN  Apply("(a+b)-b", IF s.k = "val" THEN sub(s.v, y) ELSE s)

(***************************************************************************)
(* The entry-point macro: embassy-executor-macros/src/macros/main.rs.      *)
(* An Option is a sequence: <<>> is None, <<v>> is Some(v).  A token       *)
(* stream is the string it was parsed from; errors is the sequence of the  *)
(* messages of the compile errors it holds.                                *)
(***************************************************************************)
\* the startup routine has at most this many arguments
MaxArgs == 2

ARCH_AVR ==
    [default_entry |-> <<"avr_device::entry">>, flavor |-> "Standard",
     executor_required |-> FALSE]
ARCH_RISCV ==
    [default_entry |-> <<"riscv_rt::entry">>, flavor |-> "Standard",
     executor_required |-> FALSE]
ARCH_CORTEX_M ==
    [default_entry |-> <<"cortex_m_rt::entry">>, flavor |-> "Standard",
     executor_required |-> FALSE]
ARCH_CORTEX_AR ==
    [default_entry |-> <<>>, flavor |-> "Standard", executor_required |-> FALSE]
ARCH_SPIN ==
    [default_entry |-> <<>>, flavor |-> "Standard", executor_required |-> FALSE]
ARCH_STD ==
    [default_entry |-> <<>>, flavor |-> "Standard", executor_required |-> FALSE]
ARCH_WASM ==
    [default_entry |-> <<"wasm_bindgen::prelude::wasm_bindgen(start)">>,
     flavor |-> "Wasm", executor_required |-> FALSE]
ARCH_TOCK ==
    [default_entry |-> <<>>, flavor |-> "Tock", executor_required |-> FALSE]
ARCH_UNSPECIFIED ==
    [default_entry |-> <<>>, flavor |-> "Standard", executor_required |-> TRUE]

Archs ==
    {ARCH_AVR, ARCH_RISCV, ARCH_CORTEX_M, ARCH_CORTEX_AR, ARCH_SPIN, ARCH_STD,
     ARCH_WASM, ARCH_TOCK, ARCH_UNSPECIFIED}

\* struct Args and its Default
ArgsDefault == [entry |-> <<>>, executor |-> <<>>, stack_size |-> <<>>]

\* f.sig.output as written: nothing, `-> ()`, `-> !`, a tuple that is not
\* empty, another type
Outputs == {"Default", "()", "!", "(u8, u8)", "u32"}

\* an item that syn::parse2 does not accept as a function
BadItem ==
    [parse_ok |-> FALSE, asyncness |-> FALSE, generics_params |-> FALSE,
     where_clause |-> FALSE, abi |-> FALSE, variadic |-> FALSE,
     output |-> "Default", inputs |-> 0]

\* the items run() may be given; generics_params, where_clause, abi and
\* variadic say whether the signature has one
Items ==
    {BadItem} \cup
    [parse_ok : {TRUE}, asyncness : BOOLEAN, generics_params : BOOLEAN,
     where_clause : BOOLEAN, abi : BOOLEAN, variadic : BOOLEAN,
     output : Outputs, inputs : 0..MaxArgs]

\* attribute arguments that are not a meta list, and a meta list that is
\* not an Args (an unknown key, a stack_size that is not a number)
BadMeta ==
    [meta_ok |-> FALSE, from_list_ok |-> FALSE, entry |-> <<>>,
     executor |-> <<>>, stack_size |-> <<>>]
BadList ==
    [meta_ok |-> TRUE, from_list_ok |-> FALSE, entry |-> <<>>,
     executor |-> <<>>, stack_size |-> <<>>]

\* the attribute arguments run() may be given; "(" is a string that is not
\* a token stream
Attrs ==
    {BadMeta, BadList} \cup
    [meta_ok : {TRUE}, from_list_ok : {TRUE},
     entry : {<<>>, <<"">>, <<"my_rt::entry">>, <<"(">>},
     executor : {<<>>, <<"my_crate::Executor">>, <<"(">>},
     stack_size : {<<>>, <<3000>>}]

\* TokenStream::from_str(s) is Ok
Lexes(s) == s # "("

NoBody == [kind |-> "none", executor |-> ""]
LoopBody == [kind |-> "loop{}", executor |-> ""]
NoResult ==
    [kind |-> "none", libtock_macros |-> <<>>, entry |-> "",
     main_body |-> NoBody, errors |-> <<>>]

\* one `if cond { error(&mut errors, &f.sig, msg) }`; a message is the
\* source's, without its backquotes and cut at the first sentence
check(cond, msg) == IF cond THEN <<msg>> ELSE <<>>

\* the match on f.sig.output
return_type_allowed(output) ==
    CASE output = "Default" -> TRUE
      [] output = "()" -> TRUE
      [] output = "!" -> TRUE
      [] OTHER -> FALSE

\* the checks of the signature, in the order of the source; each appends
\* its error to errors whatever the others found
check_signature(f) ==
    check(~f.asyncness, "main function must be async")
    \o check(f.generics_params, "main function must not be generic")
    \o check(f.where_clause, "main function must not have where clauses")
    \o check(f.abi, "main function must not have an ABI qualifier")
    \o check(f.variadic, "main function must not be variadic")
    \o check(~return_type_allowed(f.output),
             "main function must either not return a value, return () or return !")
    \o check(f.inputs # 1, "main function must have 1 argument: the spawner.")

\* syn::parse2(item), NestedMeta::parse_meta_list(args), Args::from_list
MacroParse ==
    /\ mpc = "parse"
    /\ IF ~item.parse_ok \/ ~attr.meta_ok
       THEN /\ mpc' = "returned"
            /\ result' = [NoResult EXCEPT !.kind = "token_stream_with_error",
                                          !.errors = <<"parse error">>]
            /\ UNCHANGED <<errors, args>>
       ELSE /\ mpc' = "signature"
            /\ IF attr.from_list_ok
               THEN /\ args' = [entry |-> attr.entry, executor |-> attr.executor,
                                stack_size |-> attr.stack_size]
                    /\ errors' = errors
               ELSE /\ args' = ArgsDefault
                    /\ errors' = errors \o <<"darling error">>
            /\ UNCHANGED result
    /\ UNCHANGED <<item, attr, arch, entry, executor, libtock_macros, main_body>>
    /\ UNCHANGED <<exec_vars, time_vars>>

\* the checks of f.sig
MacroSignature ==
    /\ mpc = "signature"
    /\ errors' = errors \o check_signature(item)
    /\ mpc' = "entry"
    /\ UNCHANGED <<item, attr, arch, args, entry, executor, libtock_macros,
                   main_body, result>>
    /\ UNCHANGED <<exec_vars, time_vars>>

\* let entry = match (args.entry, arch.default_entry)
MacroEntry ==
    /\ mpc = "entry"
    /\ LET src == IF args.entry # <<>> THEN args.entry ELSE arch.default_entry
       IN  IF src = <<>>
           THEN entry' = "" /\ errors' = errors
           ELSE IF src[1] = ""
           THEN entry' = "" /\ errors' = errors
           ELSE IF Lexes(src[1])
           THEN entry' = src[1] /\ errors' = errors
           ELSE entry' = "" /\ errors' = errors \o <<"lex error">>
    /\ mpc' = "executor"
    /\ UNCHANGED <<item, attr, arch, args, executor, libtock_macros, main_body,
                   result>>
    /\ UNCHANGED <<exec_vars, time_vars>>

\* let executor = match (args.executor, arch.executor_required), then
\* TokenStream::from_str(executor)
MacroExecutor ==
    /\ mpc = "executor"
    /\ LET required == args.executor = <<>> /\ arch.executor_required
           path == IF required THEN ""
                   ELSE IF args.executor # <<>> THEN args.executor[1]
                   ELSE "::embassy_executor::Executor"
           e1 == check(required, "No architecture selected for embassy-executor.")
       IN  IF Lexes(path)
           THEN executor' = path /\ errors' = errors \o e1
           ELSE executor' = "" /\ errors' = (errors \o e1) \o <<"lex error">>
    /\ mpc' = "body"
    /\ UNCHANGED <<item, attr, arch, args, entry, libtock_macros, main_body,
                   result>>
    /\ UNCHANGED <<exec_vars, time_vars>>

\* let (main_ret, mut main_body) = match arch.flavor
MacroBody ==
    /\ mpc = "body"
    /\ main_body' = [kind |-> arch.flavor, executor |-> executor]
    /\ IF arch.flavor = "Tock"
       THEN IF args.stack_size # <<>>
            THEN /\ libtock_macros' = <<"set_main", "stack_size">>
                 /\ errors' = errors
            ELSE /\ libtock_macros' = <<>>
                 /\ errors' = errors \o <<"No stack size specified for tock arch.">>
       ELSE UNCHANGED <<libtock_macros, errors>>
    /\ mpc' = "finish"
    /\ UNCHANGED <<item, attr, arch, args, entry, executor, result>>
    /\ UNCHANGED <<exec_vars, time_vars>>

\* finish that emits the body whether or not an error was recorded
MacroFinish_keeps_body ==
    /\ mpc = "finish"
    /\ main_body' = main_body
    /\ result' = [kind |-> "expansion", libtock_macros |-> libtock_macros,
                  entry |-> entry, main_body |-> main_body', errors |-> errors]
    /\ mpc' = "returned"
    /\ UNCHANGED <<item, attr, arch, args, entry, executor, libtock_macros, errors>>
    /\ UNCHANGED <<exec_vars, time_vars>>

\* if !errors.is_empty() { main_body = quote! {loop{}} }; let result = quote!
MacroFinish ==
    /\ mpc = "finish"
    /\ main_body' = IF errors # <<>> THEN LoopBody ELSE main_body
    /\ result' = [kind |-> "expansion", libtock_macros |-> libtock_macros,
                  entry |-> entry, main_body |-> main_body', errors |-> errors]
    /\ mpc' = "returned"
    /\ UNCHANGED <<item, attr, arch, args, entry, executor, libtock_macros, errors>>
    /\ UNCHANGED <<exec_vars, time_vars>>

\* run() is called with an item, attribute arguments and an Arch
MacroInit ==
    /\ item \in Items
    /\ attr \in Attrs
    /\ arch \in Archs
    /\ mpc = "parse"
    /\ errors = <<>>
    /\ args = ArgsDefault
    /\ entry = ""
    /\ executor = ""
    /\ libtock_macros = <<>>
    /\ main_body = NoBody
    /\ result = NoResult

\* run() is not called
MacroIdle ==
    /\ item = BadItem
    /\ attr = BadMeta
    /\ arch = ARCH_TOCK
    /\ mpc = "idle"
    /\ errors = <<>>
    /\ args = ArgsDefault
    /\ entry = ""
    /\ executor = ""
    /\ libtock_macros = <<>>
    /\ main_body = NoBody
    /\ result = NoResult

ExecInit ==
    /\ pc = "start"
    /\ SIGNAL_WORK = FALSE
    /\ in_poll = 0
    /\ init_calls = 0
    /\ polls = 0
    /\ armed = 0
    /\ pending = 0
    /\ unserved = FALSE
    /\ delivered = "none"

TimeIdle ==
    /\ frequency = 1000
    /\ overflow_checks = TRUE
    /\ x = 0
    /\ y = 0
    /\ op = "none"
    /\ out = None

Init == ExecInit /\ TimeIdle /\ MacroIdle

Next ==
    \/ RunInit
    \/ Swap
    \/ YieldWaitCall
    \/ YieldWaitUpcall
    \/ PollEnter
    \/ PollWake
    \/ PollSubscribe
    \/ PollReturn
    \/ YieldNoWait
    \/ KernelEvent

Spec == Init /\ [][Next]_vars

\* run() is straight-line code on a thread that keeps running: each of its
\* steps is taken once it can be; inner.poll() returns, since tasks are
\* cooperative; S::yield_no_wait() returns.  Nothing is assumed of the
\* hardware (KernelEvent) nor of what a task or an upcall chooses to do.
Fairness ==
    /\ WF_vars(RunInit)
    /\ WF_vars(Swap)
    /\ WF_vars(YieldWaitCall)
    /\ WF_vars(PollEnter)
    /\ WF_vars(PollReturn)
    /\ WF_vars(YieldNoWait)

SpecLive == Init /\ [][Next]_vars /\ Fairness

NextAsync == Next \/ AsyncPender

SpecAsync == Init /\ [][NextAsync]_vars

NextTime ==
    \/ AsSecs \/ AsMillis \/ AsMicros
    \/ FromTicks \/ FromSecs \/ FromMillis \/ FromMicros \/ FromNanos
    \/ FromSecsFloor \/ FromMillisFloor \/ FromMicrosFloor
    \/ TryFromSecs \/ TryFromMillis \/ TryFromMicros \/ TryFromNanos
    \/ TryFromSecsFloor \/ TryFromMillisFloor \/ TryFromMicrosFloor
    \/ FromHz
    \/ CheckedAdd \/ CheckedSub \/ CheckedMul \/ CheckedDiv
    \/ Add \/ Sub \/ Mul \/ Div \/ U32Mul
    \/ AddAssign \/ SubAssign \/ MulAssign \/ DivAssign
    \/ FromMillisAsMillis \/ FromMillisFloorAsMillis \/ AddThenSub

InitTime == ExecInit /\ TimeInit /\ MacroIdle

SpecTime == InitTime /\ [][NextTime]_vars

NextMacro ==
    \/ MacroParse
    \/ MacroSignature
    \/ MacroEntry
    \/ MacroExecutor
    \/ MacroBody
    \/ MacroFinish

InitMacro == ExecInit /\ TimeIdle /\ MacroInit

SpecMacro == InitMacro /\ [][NextMacro]_vars

(***************************************************************************)
(* Exact arithmetic the Duration claims are stated in.  It never forms a   *)
(* product: a * b / c is built bit by bit from quotients and remainders,   *)
(* so it is exact for all words, and it knows nothing of the gcd.          *)
(***************************************************************************)
\* stands for every value above MaxWord
TooBig == MaxWord + 1

Fits(n) == n # TooBig

\* p + q, or TooBig when the sum is above MaxWord
ExactAdd(p, q) ==
    IF p = TooBig \/ q = TooBig THEN TooBig
    ELSE IF p > MaxWord - q THEN TooBig ELSE p + q

\* [q, r] of 2 * n + bit * a, for h the [q, r] of n
ExactBit(h, a, bit, c) ==
    LET r2 == h.r + h.r
        d == [q |-> ExactAdd(ExactAdd(h.q, h.q), r2 \div c), r |-> r2 % c]
        r3 == d.r + (a % c)
    IN  IF bit = 0 THEN d
        ELSE [q |-> ExactAdd(ExactAdd(d.q, a \div c), r3 \div c), r |-> r3 % c]

\* [q, r] of 32 * n + digit * a, for a digit of five bits; h is evaluated first
ExactDigit(h, a, digit, c) ==
    IF h.r < 0 THEN h
    ELSE LET h4 == ExactBit(h, a, (digit \div 16) % 2, c)
             h3 == ExactBit(h4, a, (digit \div 8) % 2, c)
             h2 == ExactBit(h3, a, (digit \div 4) % 2, c)
             h1 == ExactBit(h2, a, (digit \div 2) % 2, c)
         IN  ExactBit(h1, a, digit % 2, c)

\* [q, r] with a * b = q * c + r and 0 <= r < c (q is TooBig above MaxWord)
RECURSIVE ExactMulDiv(_, _, _)
ExactMulDiv(a, b, c) ==
    IF b = 0 THEN [q |-> 0, r |-> 0]
    ELSE ExactDigit(ExactMulDiv(a, b \div 32, c), a, b % 32, c)

\* a * b, floor(a * b / c), ceil(a * b / c); TooBig above MaxWord
Product(a, b) == ExactMulDiv(a, b, 1).q
FloorOf(a, b, c) == ExactMulDiv(a, b, c).q
CeilOf(a, b, c) ==
    LET e == ExactMulDiv(a, b, c)
    IN  IF e.r = 0 THEN e.q ELSE ExactAdd(e.q, 1)
\* whether c divides a * b
Divides(c, a, b) == ExactMulDiv(a, b, c).r = 0

(***************************************************************************)
(* Claims about the executor                                               *)
(***************************************************************************)

\* C1: a __pender call at any instant, also between the swap that returned
\* false and yield_wait, never leaves the executor blocked in yield_wait
\* with SIGNAL_WORK true (from where only some further upcall gets it out).
C1_WakeNeverStrandsExecutor == ~(pc = "wait" /\ SIGNAL_WORK)

\* C2: run() calls init exactly once, before the first inner.poll(), and then
\* stays in its loop: every iteration ends by starting the next one and no
\* step leaves the loop or calls init again.
C2_InitOnceThenLoopForever ==
    /\ [](/\ pc \in PcValues
          /\ init_calls = (IF pc = "start" THEN 0 ELSE 1)
          /\ (polls > 0 => init_calls = 1))
    /\ [][/\ (pc # "start" => pc' # "start" /\ init_calls' = init_calls)
          /\ (pc \in {"wait", "nowait"} /\ pc' # pc => pc' = "loop")
          /\ (pc = "loop" => pc' \in {"loop", "idle", "work"})]_vars

\* C2 witness: the loop is in a later iteration, after init and two polls
C2_Witness == pc = "loop" /\ init_calls = 1 /\ polls >= 2

\* C3: at most one inner.poll() is in flight, and only where run() calls it:
\* __pender, from init, from inside a poll or from an upcall, never polls.
C3_OnePollInFlight ==
    /\ in_poll \in {0, 1}
    /\ (in_poll = 1 <=> pc = "poll")

\* C3 witness: __pender was called from inside the poll that is in flight
C3_Witness == pc = "poll" /\ in_poll = 1 /\ SIGNAL_WORK /\ unserved

(***************************************************************************)
(* Claims about Duration (specification SpecTime)                          *)
(***************************************************************************)

\* C4: whenever the intermediate product does not overflow, the gcd-reduced
\* formulas give the exact results: from_millis, from_micros, from_nanos give
\* ceil(x*f/U), the _floor forms floor(x*f/U), as_secs, as_millis, as_micros
\* give floor(t*U/f).
C4_ConversionsAreExact ==
    /\ (op = "from_millis" /\ Fits(Product(x, frequency \div gcd_1k))
            => out = Val(CeilOf(x, frequency, 1000)))
    /\ (op = "from_micros" /\ Fits(Product(x, frequency \div gcd_1m))
            => out = Val(CeilOf(x, frequency, 1000000)))
    /\ (op = "from_nanos" /\ Fits(Product(x, frequency \div gcd_1g))
            => out = Val(CeilOf(x, frequency, 1000000000)))
    /\ (op = "from_millis_floor" /\ Fits(Product(x, frequency \div gcd_1k))
            => out = Val(FloorOf(x, frequency, 1000)))
    /\ (op = "from_micros_floor" /\ Fits(Product(x, frequency \div gcd_1m))
            => out = Val(FloorOf(x, frequency, 1000000)))
    /\ (op = "as_secs" => out = Val(FloorOf(x, 1, frequency)))
    /\ (op = "as_millis" /\ Fits(Product(x, 1000 \div gcd_1k))
            => out = Val(FloorOf(x, 1000, frequency)))
    /\ (op = "as_micros" /\ Fits(Product(x, 1000000 \div gcd_1m))
            => out = Val(FloorOf(x, 1000000, frequency)))

\* C5 as stated: from_millis(x).as_millis() = x for every frequency and every
\* x with x*f in range.
C5_RoundTripAtEveryFrequency ==
    op = "from_millis.as_millis" /\ Fits(Product(x, frequency)) => out = Val(x)

\* C5 as amended: from_millis(x).as_millis() = x for every frequency of at
\* least 1000 Hz and every x with x*f + 1000 in range.
C5_RoundTripFrom1000Hz ==
    op = "from_millis.as_millis" /\ frequency >= 1000
        /\ Fits(ExactAdd(Product(x, frequency), 1000))
    => out = Val(x)

\* C5 witness: the largest such x at 32768 Hz made the round trip
C5_Witness ==
    /\ op = "from_millis.as_millis"
    /\ frequency = 32768
    /\ x = (MaxWord - 1000) \div frequency
    /\ out = Val(x)

\* C6 as stated: from_millis_floor(x).as_millis() = x for every frequency and
\* every x with x*f in range.
C6_FloorRoundTripAtEveryFrequency ==
    op = "from_millis_floor.as_millis" /\ Fits(Product(x, frequency)) => out = Val(x)

\* C6 as amended: for x*f in range from_millis_floor(x).as_millis() is x when
\* 1000 divides x*f (so for every x when f is a multiple of 1000) and is
\* less than x otherwise.
C6_FloorRoundTripIffExact ==
    op = "from_millis_floor.as_millis" /\ Fits(Product(x, frequency))
    => /\ out.k = "val"
       /\ out.v <= x
       /\ (out.v = x <=> Divides(1000, x, frequency))

\* C6 witness: a round trip at 16 MHz, a multiple of 1000 Hz
C6_Witness ==
    /\ op = "from_millis_floor.as_millis"
    /\ frequency = 16000000
    /\ x > 0
    /\ out = Val(x)

\* C7: checked_add, checked_sub, checked_mul are None exactly when the exact
\* result is outside 0..MaxWord, checked_div exactly when the divisor is 0,
\* and Some of the exact result otherwise; the operators and their assign
\* forms return that value, or panic where the checked form is None.
C7_ArithmeticNeverWraps ==
    /\ (op = "checked_add"
            => out = (IF Fits(ExactAdd(x, y)) THEN Some(x + y) ELSE None))
    /\ (op = "checked_sub"
            => out = (IF x >= y THEN Some(x - y) ELSE None))
    /\ (op = "checked_mul"
            => out = (IF Fits(Product(x, y)) THEN Some(Product(x, y)) ELSE None))
    /\ (op = "checked_div"
            => out = (IF y # 0 THEN Some(x \div y) ELSE None))
    /\ (op \in {"add", "add_assign"}
            => out = (IF Fits(ExactAdd(x, y)) THEN Val(x + y) ELSE Panic))
    /\ (op \in {"sub", "sub_assign"}
            => out = (IF x >= y THEN Val(x - y) ELSE Panic))
    /\ (op \in {"mul", "mul_assign", "u32_mul"}
            => out = (IF Fits(Product(x, y)) THEN Val(Product(x, y)) ELSE Panic))
    /\ (op \in {"div", "div_assign"}
            => out = (IF y # 0 THEN Val(x \div y) ELSE Panic))

\* C7 witness: a product one step past the largest word panicked
C7_Witness ==
    /\ op = "mul"
    /\ x > MaxWord \div 2
    /\ y = 2
    /\ out = Panic

\* C8: every try_from_ constructor returns None when its product does not
\* fit the word and Some of the correctly rounded tick count otherwise, at
\* every frequency; it never panics and never returns a wrapped value.
C8_TryFromFailsCleanly ==
    /\ (op \in {"try_from_secs", "try_from_secs_floor"}
            => out = (IF Fits(Product(x, frequency))
                      THEN Some(Product(x, frequency)) ELSE None))
    /\ (op = "try_from_millis"
            => out = (IF Fits(Product(x, frequency \div gcd_1k))
                      THEN Some(CeilOf(x, frequency, 1000)) ELSE None))
    /\ (op = "try_from_micros"
            => out = (IF Fits(Product(x, frequency \div gcd_1m))
                      THEN Some(CeilOf(x, frequency, 1000000)) ELSE None))
    /\ (op = "try_from_nanos"
            => out = (IF Fits(Product(x, frequency \div gcd_1g))
                      THEN Some(CeilOf(x, frequency, 1000000000)) ELSE None))
    /\ (op = "try_from_millis_floor"
            => out = (IF Fits(Product(x, frequency \div gcd_1k))
                      THEN Some(FloorOf(x, frequency, 1000)) ELSE None))
    /\ (op = "try_from_micros_floor"
            => out = (IF Fits(Product(x, frequency \div gcd_1m))
                      THEN Some(FloorOf(x, frequency, 1000000)) ELSE None))

\* C9: for every tick count t and every frequency, as_millis and as_micros
\* return floor(t*U/f) whenever that value fits the word.
C9_AsUnitsOverflowSafe ==
    /\ (op = "as_millis" /\ Fits(FloorOf(x, 1000, frequency))
            => out = Val(FloorOf(x, 1000, frequency)))
    /\ (op = "as_micros" /\ Fits(FloorOf(x, 1000000, frequency))
            => out = Val(FloorOf(x, 1000000, frequency)))

\* C10: for Durations a and b whose sum fits the word, (a + b) - b = a and
\* neither operator panics.
C10_AddThenSubIsIdentity ==
    op = "(a+b)-b" /\ Fits(ExactAdd(x, y)) => out = Val(x)

\* C10 witness: a sum that is exactly the largest word
C10_Witness ==
    /\ op = "(a+b)-b"
    /\ x > 0
    /\ y > 0
    /\ x + y = MaxWord
    /\ out = Val(x)

C12_Expected ==
    {m \in {"main function must be async"} : ~item.asyncness}
    \cup {m \in {"main function must not be generic"} : item.generics_params}
    \cup {m \in {"main function must not have where clauses"} : item.where_clause}
    \cup {m \in {"main function must not have an ABI qualifier"} : item.abi}
    \cup {m \in {"main function must not be variadic"} : item.variadic}
    \cup {m \in {"main function must either not return a value, return () or return !"} :
                item.output \notin {"Default", "()", "!"}}
    \cup {m \in {"main function must have 1 argument: the spawner."} :
                item.inputs # 1}
    \cup {m \in {"No stack size specified for tock arch."} :
                arch.flavor = "Tock" /\ attr.stack_size = <<>>}
    \cup {m \in {"No architecture selected for embassy-executor."} :
                arch.executor_required /\ attr.executor = <<>>}

\* C12: run() records an error for every rule the startup routine breaks
\* (not async, generic, where clause, ABI, variadic, a return type other than
\* none / () / !, not exactly one argument, Tock without stack_size, no arch
\* and no executor), all of them together; when an error was recorded the
\* main body is exactly loop{} and the errors are in the output; a body that
\* builds an executor is emitted only when no rule is broken.
C12_MalformedShapeGivesLoop ==
    /\ (mpc = "returned" /\ result.kind = "expansion"
            => /\ \A m \in C12_Expected :
                    \E i \in 1..Len(result.errors) : result.errors[i] = m
               /\ result.errors = errors
               /\ (errors # <<>> => result.main_body = LoopBody)
               /\ (result.main_body # LoopBody
                        => /\ C12_Expected = {}
                           /\ result.main_body.kind = arch.flavor))
    /\ (mpc = "returned" /\ result.kind # "expansion"
            => result.main_body = NoBody)

\* C12 witness: a Tock startup routine that is not async, has two arguments
\* and no stack_size came out as loop{} with the three errors
C12_Witness ==
    /\ mpc = "returned"
    /\ ~item.asyncness
    /\ item.inputs = 2
    /\ arch = ARCH_TOCK
    /\ attr.from_list_ok
    /\ attr.stack_size = <<>>
    /\ Len(result.errors) = 3
    /\ result.main_body = LoopBody

\* C13: the flag is cleared by the swap that observes it, before the poll it
\* triggers starts; a poll starts only after a swap that returned true; a
\* __pender call made while a poll runs leaves the flag true until the next
\* swap, which therefore starts one more poll.
C13_SwapClearsBeforePoll ==
    /\ [](pc = "work" => ~SIGNAL_WORK)
    /\ [](unserved /\ pc \in {"poll", "nowait", "loop"} => SIGNAL_WORK)
    /\ [][/\ (pc # "work" /\ pc' = "work"
                  => pc = "loop" /\ SIGNAL_WORK /\ ~SIGNAL_WORK')
           /\ (in_poll' > in_poll => pc = "work" /\ pc' = "poll")
           /\ (unserved /\ SIGNAL_WORK /\ pc = "loop" /\ pc' # "loop"
                  => pc' = "work")]_vars

\* C13 witness: a second poll runs although no upcall was ever delivered: it
\* was triggered by the wake made during the first poll
C13_Witness ==
    /\ pc = "poll"
    /\ polls = 2
    /\ delivered = "none"
    /\ ~SIGNAL_WORK

\* C14: under Tock's delivery model every __pender call is eventually
\* followed by the start of an inner.poll(), and the executor never goes to
\* yield_wait while a __pender call is unserved.
C14_EveryWakeIsPolled ==
    /\ (unserved ~> ~unserved)
    /\ [](pc \in {"idle", "wait"} => ~unserved)

\* C14 witness: a poll runs after the executor blocked in yield_wait: the
\* upcall that ended the wait called __pender, and the poll serves it
C14_Witness ==
    /\ pc = "poll"
    /\ delivered = "wait"
    /\ ~unserved
    /\ polls >= 2

\* C15: every inner.poll() is followed by yield_no_wait before the flag is
\* tested again, and that yield delivers an upcall that is pending; so an
\* upcall pending during a poll is delivered in the yield_no_wait after it
\* even when the executor never blocks in yield_wait.
C15_YieldBetweenPolls ==
    /\ [][/\ (pc = "poll" /\ pc' # "poll" => pc' = "nowait")
           /\ (pc = "nowait" /\ pc' # "nowait"
                  => /\ pc' = "loop"
                     /\ (pending > 0 => pending' = pending - 1
                                         /\ delivered' = "nowait"))
           /\ (pc # "loop" /\ pc' = "loop"
                  => pc \in {"start", "wait", "nowait"})]_vars
    /\ (pc = "poll" ~> pc = "nowait")
    /\ ((pc = "poll" /\ pending > 0) ~> (pc = "loop" /\ delivered = "nowait"))

\* C15 witness: after the first poll, which left the flag set, the
\* yield_no_wait delivered an upcall; yield_wait was never called
C15_Witness ==
    /\ pc = "loop"
    /\ polls = 1
    /\ delivered = "nowait"
    /\ SIGNAL_WORK

====
